---------------------------- MODULE Spec2Model ----------------------------
(***************************************************************************)
(* Authentication core of fastapi-passkey-auth: password login, JWT        *)
(* access/refresh tokens, request authentication and the WebAuthn          *)
(* registration / authentication ceremonies, at the level of the HTTP      *)
(* handlers (app/api, app/dependencies) and of the service classes         *)
(* (app/services).                                                         *)
(*                                                                         *)
(* Every handler is modelled by what its body does when it runs.  A read   *)
(* of an attribute that the object's class does not define, a keyword the  *)
(* constructor does not take and a schema built without its required       *)
(* fields are Python exceptions: inside a `try ... except Exception` they  *)
(* become the handler's HTTPException, elsewhere they leave the handler    *)
(* and the framework answers 500.  The signing secret and the relying      *)
(* party settings are configuration and are taken to be usable values.     *)
(***************************************************************************)
EXTENDS Integers, FiniteSets, Sequences, TLC

(***************************************************************************)
(* Bounds of the model.                                                    *)
(***************************************************************************)
MaxUsers == 2
MaxTime == 3
MaxTokens == 2
MaxCount == 2
MaxChallenges == 2

(***************************************************************************)
(* Settings (app/config.py), lifetimes in clock ticks.                     *)
(***************************************************************************)
ACCESS_TOKEN_EXPIRE_MINUTES == 1
REFRESH_TOKEN_EXPIRE_DAYS == 2

Emails == {"a@x.com", "b@x.com"}
Passwords == {"p@ss1234", "wrong"}
UserIds == 1..MaxUsers
Times == 0..MaxTime

(***************************************************************************)
(* Python values.  An identifier is an int (the primary key of             *)
(* models/user.py) or a UUID (the type the services and schemas            *)
(* annotate); str() keeps the digits and the form.                         *)
(***************************************************************************)
IntId(n) == [form |-> "int", v |-> n]
UuidId(n) == [form |-> "uuid", v |-> n]
IdInputs == {IntId(n) : n \in UserIds} \cup {UuidId(1)}

str(user_id) == user_id

\* uuid.UUID(s): parses the canonical text of a UUID, ValueError otherwise.
UUID_parses(s) == s.form = "uuid"

(***************************************************************************)
(* PasswordService (passlib bcrypt context).  A hash bundles the           *)
(* algorithm, a salt and the digest of the password under that salt.       *)
(***************************************************************************)
Salts == 1..2
NoHash == [alg |-> "none", salt |-> 0, pw |-> ""]
MalformedHash == [alg |-> "unknown", salt |-> 0, pw |-> ""]

\* Two passwords of 73 bytes that differ in their last byte only, written by
\* their common first 72 bytes and the byte that follows.
LongPasswords == {"<72 bytes>A", "<72 bytes>B"}

\* bcrypt digests the first 72 bytes of the password and ignores the rest.
bcrypt_secret(password) == IF password \in LongPasswords THEN "<72 bytes>" ELSE password

hash_password(password, salt) ==
    [alg |-> "bcrypt", salt |-> salt, pw |-> bcrypt_secret(password)]

\* pwd_context.verify: "raise" stands for passlib's UnknownHashError.
verify_password(plain_password, hashed_password) ==
    IF hashed_password.alg # "bcrypt" THEN "raise"
    ELSE IF hashed_password.pw = bcrypt_secret(plain_password) THEN "true" ELSE "false"

(***************************************************************************)
(* Rows of the users table: the mapped columns of models.user.User.        *)
(***************************************************************************)
UserColumns == {"id", "email", "password_hash", "full_name", "is_active", "last_login"}

NoUser == [id |-> 0, email |-> "", password_hash |-> NoHash, is_active |-> FALSE]

UserRow(id, email, h, active) ==
    [id |-> id, email |-> email, password_hash |-> h, is_active |-> active]

(***************************************************************************)
(* Bearer tokens.  sig = "ok" iff the signature validates under            *)
(* settings.SECRET_KEY; exp = NoExp and type = "none" when the payload     *)
(* carries no such entry.                                                  *)
(***************************************************************************)
NoExp == -1
NoToken == [sub |-> IntId(0), exp |-> NoExp, type |-> "none", sig |-> "none"]
ForgedToken == [sub |-> IntId(1), exp |-> NoExp, type |-> "access", sig |-> "bad"]

\* Variant: the payload is built without "exp".
create_access_token_noexp(user_id, t) ==
    [sub |-> str(user_id), exp |-> NoExp, type |-> "access", sig |-> "ok"]

create_access_token(user_id, t) ==
    [sub |-> str(user_id), exp |-> t + ACCESS_TOKEN_EXPIRE_MINUTES,
     type |-> "access", sig |-> "ok"]

create_refresh_token(user_id, t) ==
    [sub |-> str(user_id), exp |-> t + REFRESH_TOKEN_EXPIRE_DAYS,
     type |-> "refresh", sig |-> "ok"]

\* jose.jwt.decode(token, SECRET_KEY, algorithms=[JWT_ALGORITHM]) raises a
\* JWTError for a bad signature and for an exp that lies in the past.
jwt_decode_ok(token, t) ==
    /\ token.sig = "ok"
    /\ (token.exp # NoExp => t <= token.exp)

NoSub == [form |-> "none", v |-> 0]

(***************************************************************************)
(* Outcome of a call: what the client (or the caller of a service method)  *)
(* gets.  status is the HTTP status: 200 for a normal return, the status   *)
(* of a raised HTTPException, 500 for any other exception that leaves the  *)
(* handler; exc names the Python exception, "" for none.                   *)
(***************************************************************************)
Return(status, detail, exc) == [status |-> status, detail |-> detail, exc |-> exc]

OK == Return(200, "", "")
HTTPException(status, detail) == Return(status, detail, "HTTPException")
Unhandled(exc) == Return(500, "Internal Server Error", exc)

\* TokenService declares no __init__: TokenService() builds the service,
\* TokenService(session) is a TypeError.
TokenService(nargs) == IF nargs = 0 THEN OK ELSE Unhandled("TypeError")

(***************************************************************************)
(* TokenService.verify_token.  Only JWTError is caught; the ValueError of   *)
(* UUID(user_id) leaves the method.                                        *)
(***************************************************************************)
verify_token(token, token_type, t) ==
    IF ~jwt_decode_ok(token, t)
    THEN [out |-> HTTPException(401, "Invalid or expired token"), user_id |-> NoSub]
    ELSE IF token.type # token_type
    THEN [out |-> HTTPException(401, "Invalid token type"), user_id |-> NoSub]
    ELSE IF token.sub = NoSub
    THEN [out |-> HTTPException(401, "Invalid token payload"), user_id |-> NoSub]
    ELSE IF ~UUID_parses(token.sub)
    THEN [out |-> Unhandled("ValueError"), user_id |-> NoSub]
    ELSE [out |-> OK, user_id |-> token.sub]

VARIABLES users, authenticators, tokens, now, issued, presented, resp, req, hashed, pending

vars == <<users, authenticators, tokens, now, issued, presented, resp, req, hashed, pending>>


(***************************************************************************)
(* The user directory.                                                     *)
(***************************************************************************)
\* Attributes of a loaded User: its mapped columns and those of Base.
UserAttributes == UserColumns \cup {"created_at", "updated_at", "authenticators"}

hasattr_User(name) == name \in UserAttributes

getattr_User(user, name) ==
    CASE name = "id" -> user.id
      [] name = "email" -> user.email
      [] name = "password_hash" -> user.password_hash
      [] name = "is_active" -> user.is_active

get_user_by_email(email) ==
    IF \E u \in users : u.email = email
    THEN CHOOSE u \in users : u.email = email
    ELSE NoUser

\* select(User).where(User.id == user_id): an integer key, or the text of one.
get_user_by_id(user_id) ==
    IF \E u \in users : user_id.form = "int" /\ u.id = user_id.v
    THEN CHOOSE u \in users : user_id.form = "int" /\ u.id = user_id.v
    ELSE NoUser

(***************************************************************************)
(* get_current_user (app/dependencies.py): the token is decoded and its    *)
(* sub looked up; the payload's type is not read.                          *)
(***************************************************************************)
credentials_exception == HTTPException(401, "Could not validate credentials")

\* Variant: the payload is read without the signature and exp being checked.
get_current_user_unverified(token, t) ==
    IF token.sub = NoSub \/ get_user_by_id(token.sub) = NoUser
    THEN [out |-> credentials_exception, user |-> NoUser]
    ELSE [out |-> OK, user |-> get_user_by_id(token.sub)]

get_current_user(token, t) ==
    IF ~jwt_decode_ok(token, t) \/ token.sub = NoSub
    THEN [out |-> credentials_exception, user |-> NoUser]
    ELSE IF get_user_by_id(token.sub) = NoUser
    THEN [out |-> credentials_exception, user |-> NoUser]
    ELSE [out |-> OK, user |-> get_user_by_id(token.sub)]

(***************************************************************************)
(* AuthService.authenticate_user: "user", "none" (the method returns       *)
(* None) or the exception that leaves it.                                  *)
(***************************************************************************)
authenticate_user(email, password) ==
    LET user == get_user_by_email(email) IN
    IF user = NoUser THEN [ret |-> "none", out |-> OK, user |-> NoUser]
    ELSE IF ~hasattr_User("hashed_password")
    THEN [ret |-> "raise", out |-> Unhandled("AttributeError"), user |-> NoUser]
    ELSE IF getattr_User(user, "hashed_password") = NoHash
    THEN [ret |-> "none", out |-> OK, user |-> NoUser]
    ELSE IF verify_password(password, getattr_User(user, "hashed_password")) = "raise"
    THEN [ret |-> "raise", out |-> Unhandled("UnknownHashError"), user |-> NoUser]
    ELSE IF verify_password(password, getattr_User(user, "hashed_password")) = "false"
    THEN [ret |-> "none", out |-> OK, user |-> NoUser]
    ELSE [ret |-> "user", out |-> OK, user |-> user]

(***************************************************************************)
(* WebAuthn values.  A credential ID is a byte string; on the wire and in  *)
(* the client's response it travels as base64url text.  The two forms of   *)
(* the same ID are different values and never compare equal.               *)
(***************************************************************************)
CredNums == {1, 2}
Challenges == 1..MaxChallenges
None == 0
NoTime == -1

CredBytes(n) == [form |-> "bytes", v |-> n]
CredText(n) == [form |-> "b64", v |-> n]

base64url_to_bytes(val) == [form |-> "bytes", v |-> val.v]
bytes_to_base64url(val) == [form |-> "b64", v |-> val.v]

\* The client's response (the `credential` dict of both verify calls): the
\* credential ID in wire form, the challenge of its clientDataJSON, the
\* signature counter of its authenticator data, and which check of the
\* relying party it cannot pass ("none": a genuine response).
Flaws == {"none", "origin", "rp_id", "signature"}
Credentials ==
    [id : {CredText(n) : n \in CredNums}, challenge : Challenges,
     sign_count : 0..MaxCount, flaw : Flaws]

NoCredential == [id |-> CredText(0), challenge |-> None, sign_count |-> 0, flaw |-> "none"]

(***************************************************************************)
(* Rows of the authenticators table (models.auth.Authenticator).           *)
(***************************************************************************)
Authenticator(user_id, credential_id, public_key, sign_count) ==
    [user_id |-> user_id, credential_id |-> credential_id,
     public_key |-> public_key, sign_count |-> sign_count, last_used_at |-> NoTime]

NoAuthenticator == Authenticator(0, CredBytes(0), 0, 0)

\* The public key a credential's authenticator holds.
PublicKeyOf(credential) == credential.id.v

(***************************************************************************)
(* webauthn.verify_registration_response / verify_authentication_response  *)
(* as the handlers call them: "" when the response verifies, otherwise the *)
(* text of the exception raised.                                           *)
(***************************************************************************)
verify_registration_response(credential, expected_challenge) ==
    IF expected_challenge # credential.challenge
    THEN "Client data challenge was not expected challenge"
    ELSE IF credential.flaw = "origin" THEN "Unexpected client data origin"
    ELSE IF credential.flaw = "rp_id" THEN "Unexpected RP ID hash"
    ELSE IF credential.flaw = "signature" THEN "Invalid attestation signature"
    ELSE ""

verify_authentication_response(credential, expected_challenge, credential_public_key, credential_current_sign_count) ==
    IF expected_challenge # credential.challenge
    THEN "Client data challenge was not expected challenge"
    ELSE IF credential.flaw = "origin" THEN "Unexpected client data origin"
    ELSE IF credential.flaw = "rp_id" THEN "Unexpected RP ID hash"
    ELSE IF /\ (credential.sign_count > 0 \/ credential_current_sign_count > 0)
            /\ credential.sign_count <= credential_current_sign_count
    THEN "Response sign count was not greater than current count"
    ELSE IF credential.flaw = "signature" \/ credential_public_key # PublicKeyOf(credential)
    THEN "Could not verify authentication signature"
    ELSE ""

(***************************************************************************)
(* What the objects the handlers use provide.                              *)
(***************************************************************************)
\* sqlalchemy.ext.asyncio.AsyncSession, the session get_db yields.
AsyncSessionAttributes == {"add", "close", "commit", "execute", "refresh"}

\* WebAuthnService.__init__ sets self.session and nothing else.
WebAuthnServiceAttributes == {"session"}

SettingsFields ==
    {"DEBUG", "DATABASE_URL", "SECRET_KEY", "JWT_ALGORITHM",
     "ACCESS_TOKEN_EXPIRE_MINUTES", "REFRESH_TOKEN_EXPIRE_DAYS",
     "WEBAUTHN_RP_ID", "WEBAUTHN_RP_NAME", "WEBAUTHN_RP_ORIGIN"}

\* Required fields of the pydantic schemas of schemas/webauthn.py.
AuthenticatorCreateFields ==
    {"credential_id", "public_key", "sign_count", "device_type",
     "backup_eligible", "backup_state"}

WebAuthnRegisterOptionsFields ==
    {"rp_id", "rp_name", "user_id", "user_name", "challenge",
     "pubkey_cred_params", "timeout", "authenticator_selection", "attestation"}

WebAuthnAuthenticationOptionsFields ==
    {"challenge", "timeout", "rp_id", "allow_credentials", "user_verification"}

\* A pydantic model built from keyword arguments: every required field given.
validates(fields, given) == fields \subseteq given

(***************************************************************************)
(* The last call and its outcome: at is the time of the call, before the   *)
(* authenticators table as the call found it.  For a verify call, replay   *)
(* tells that an earlier verify call carried the same challenge, and fresh *)
(* that generate-options of the same ceremony drew the challenge and no    *)
(* verify call has carried it yet.                                         *)
(***************************************************************************)
NoPassword == ""
NoInput == [none |-> TRUE]

\* issued: the challenges the generate-options calls drew, each with its
\* ceremony and the user it was drawn for (0: none).
Drawn(c, ceremony, user_id) == [challenge |-> c, ceremony |-> ceremony, user_id |-> user_id]
Unused == Challenges \ {i.challenge : i \in issued}

Replay(c) == c \in presented
Fresh(c, ceremony) ==
    /\ c \notin presented
    /\ \E i \in issued : i.challenge = c /\ i.ceremony = ceremony

Resp(op, out, input) ==
    [op |-> op, out |-> out, input |-> input,
     access |-> NoToken, refresh |-> NoToken, user |-> NoUser, subject |-> NoSub,
     challenge |-> None,
     at |-> now, before |-> authenticators, replay |-> FALSE, fresh |-> FALSE]

\* Tokens a client can present: the issued ones, those with a byte of the
\* signature changed, and one made without the secret.
Tamper(token) == [token EXCEPT !.sig = "bad"]
Presentable == tokens \cup {Tamper(t) : t \in tokens} \cup {ForgedToken}

(***************************************************************************)
(* UserService.create_user.                                                *)
(***************************************************************************)
NextUserId == IF users = {} THEN 1 ELSE 1 + CHOOSE n \in {u.id : u \in users} :
                                              \A u \in users : u.id <= n

create_user_result(email, password) ==
    LET user_dict == {"email", "full_name"} \cup
                     (IF password # NoPassword THEN {"hashed_password"} ELSE {})
    IN  IF get_user_by_email(email) # NoUser
        THEN [out |-> HTTPException(400, "Email already registered"), users |-> users]
        ELSE IF ~(user_dict \subseteq UserAttributes)
        THEN [out |-> Unhandled("TypeError"), users |-> users]
        ELSE [out |-> OK,
              users |-> users \cup {UserRow(NextUserId, email, NoHash, TRUE)}]

\* Fields UserRead.model_validate(user) reads from the User object.
UserReadFields ==
    {"email", "full_name", "id", "is_active", "created_at", "updated_at", "last_login_at"}

(***************************************************************************)
(* POST /register (api/auth.py register_user).                             *)
(***************************************************************************)
register_user(email, password) ==
    LET r == create_user_result(email, password)
        out == IF r.out # OK THEN r.out
               ELSE IF ~validates(UserReadFields, UserAttributes)
               THEN Unhandled("ValidationError")
               ELSE OK
    IN  /\ NextUserId \in UserIds
        /\ users' = r.users
        /\ resp' = Resp("register_user", out, [email |-> email, password |-> password])
        /\ UNCHANGED <<pending, hashed, authenticators, tokens, now, issued, presented, req>>

(***************************************************************************)
(* UserService.update_user.  update_dict holds the fields that were set,   *)
(* the password replaced by "hashed_password"; setattr of a name that is   *)
(* no column sets a plain attribute, which the commit does not write.      *)
(***************************************************************************)
NoEmail == ""

update_user_result(user_id, email, password) ==
    LET user == get_user_by_id(user_id)
        update_dict == (IF email # NoEmail THEN {"email"} ELSE {}) \cup
                       (IF password # NoPassword THEN {"hashed_password"} ELSE {})
        written == update_dict \cap UserColumns
        row == [user EXCEPT !.email = IF "email" \in written THEN email ELSE @]
    IN  IF user = NoUser
        THEN [out |-> HTTPException(404, "User not found"), users |-> users, user |-> NoUser]
        ELSE IF email # NoEmail /\ email # user.email /\ get_user_by_email(email) # NoUser
        THEN [out |-> HTTPException(400, "Email already registered"),
              users |-> users, user |-> NoUser]
        ELSE [out |-> OK, users |-> (users \ {user}) \cup {row}, user |-> row]

update_user(user_id, email, password) ==
    LET r == update_user_result(user_id, email, password) IN
    /\ users' = r.users
    /\ resp' = [Resp("update_user", r.out,
                     [user_id |-> user_id, email |-> email, password |-> password])
                  EXCEPT !.user = r.user]
    /\ UNCHANGED <<pending, hashed, authenticators, tokens, now, issued, presented, req>>

(***************************************************************************)
(* create_user and update_user, step by step.  Each awaits its SELECTs and *)
(* then its commit, and another request, on a session of its own, runs in  *)
(* between.  pending[r] is request r between the two: the row it loaded    *)
(* (update_user) and what it is about to write.  The column users.email is *)
(* unique: a commit that would store an e-mail address twice raises        *)
(* sqlalchemy.exc.IntegrityError, which nothing catches.                   *)
(***************************************************************************)
Writers == 1..2

IdleWrite == [pc |-> "idle", op |-> "", user |-> NoUser, email |-> NoEmail,
              password |-> NoPassword]

\* The e-mail address is in a row other than that of user_id (0: of no user).
email_taken(email, user_id) == \E u \in users : u.email = email /\ u.id # user_id

UserInput(w, held) ==
    [user_id |-> IntId(pending[w].user.id), email |-> pending[w].email,
     password |-> pending[w].password, held |-> held]

create_user_check(w, email, password) ==
    /\ pending[w].pc = "idle"
    /\ IF get_user_by_email(email) # NoUser
       THEN /\ resp' = Resp("create_user", HTTPException(400, "Email already registered"),
                            [user_id |-> IntId(0), email |-> email,
                             password |-> password, held |-> TRUE])
            /\ UNCHANGED pending
       ELSE /\ pending' = [pending EXCEPT ![w] = [pc |-> "checked", op |-> "create_user",
                                                 user |-> NoUser, email |-> email,
                                                 password |-> password]]
            /\ UNCHANGED resp
    /\ UNCHANGED <<hashed, users, authenticators, tokens, now, issued, presented, req>>

create_user_commit(w) ==
    LET email == pending[w].email
        user_dict == {"email", "full_name"} \cup
                     (IF pending[w].password # NoPassword THEN {"hashed_password"} ELSE {})
        held == user_dict \subseteq UserAttributes /\ email_taken(email, 0)
        out == IF ~(user_dict \subseteq UserAttributes) THEN Unhandled("TypeError")
               ELSE IF held THEN Unhandled("IntegrityError")
               ELSE OK
    IN  /\ pending[w].pc = "checked" /\ pending[w].op = "create_user"
        /\ NextUserId \in UserIds
        /\ users' = IF out = OK THEN users \cup {UserRow(NextUserId, email, NoHash, TRUE)}
                    ELSE users
        /\ resp' = Resp("create_user", out, UserInput(w, held))
        /\ pending' = [pending EXCEPT ![w] = IdleWrite]
        /\ UNCHANGED <<hashed, authenticators, tokens, now, issued, presented, req>>

update_user_check(w, user_id, email, password) ==
    LET user == get_user_by_id(user_id)
        input == [user_id |-> user_id, email |-> email, password |-> password,
                  held |-> user # NoUser /\ email # NoEmail /\ email_taken(email, user.id)]
    IN  /\ pending[w].pc = "idle"
        /\ IF user = NoUser
           THEN /\ resp' = Resp("update_user", HTTPException(404, "User not found"), input)
                /\ UNCHANGED pending
           ELSE IF email # NoEmail /\ email # user.email /\ get_user_by_email(email) # NoUser
           THEN /\ resp' = Resp("update_user",
                                HTTPException(400, "Email already registered"), input)
                /\ UNCHANGED pending
           ELSE /\ pending' = [pending EXCEPT ![w] = [pc |-> "checked", op |-> "update_user",
                                                     user |-> user, email |-> email,
                                                     password |-> password]]
                /\ UNCHANGED resp
        /\ UNCHANGED <<hashed, users, authenticators, tokens, now, issued, presented, req>>

\* The UPDATE sets the columns whose attribute was given a new value.
update_user_commit(w) ==
    LET user == pending[w].user
        email == pending[w].email
        writes == email # NoEmail /\ email # user.email
        held == writes /\ email_taken(email, user.id)
        out == IF held THEN Unhandled("IntegrityError") ELSE OK
        row(u) == IF u.id = user.id /\ writes THEN [u EXCEPT !.email = email] ELSE u
    IN  /\ pending[w].pc = "checked" /\ pending[w].op = "update_user"
        /\ users' = IF out = OK THEN {row(u) : u \in users} ELSE users
        /\ resp' = [Resp("update_user", out, UserInput(w, held))
                      EXCEPT !.user = IF out = OK THEN row(user) ELSE NoUser]
        /\ pending' = [pending EXCEPT ![w] = IdleWrite]
        /\ UNCHANGED <<hashed, authenticators, tokens, now, issued, presented, req>>

(***************************************************************************)
(* POST /login (api/auth.py login).                                        *)
(***************************************************************************)
login_result(email, password, t) ==
    LET a == authenticate_user(email, password) IN
    IF a.ret = "raise" THEN [out |-> a.out, access |-> NoToken, refresh |-> NoToken]
    ELSE IF a.ret = "none"
    THEN [out |-> HTTPException(401, "Incorrect email or password"),
          access |-> NoToken, refresh |-> NoToken]
    ELSE IF TokenService(1) # OK
    THEN [out |-> TokenService(1), access |-> NoToken, refresh |-> NoToken]
    ELSE [out |-> OK,
          access |-> create_access_token(IntId(a.user.id), t),
          refresh |-> create_refresh_token(IntId(a.user.id), t)]

login(email, password) ==
    LET r == login_result(email, password, now)
        issuedNow == {r.access, r.refresh} \ {NoToken}
    IN  /\ Cardinality(tokens \cup issuedNow) <= MaxTokens
        /\ tokens' = tokens \cup issuedNow
        /\ resp' = [Resp("login", r.out, [email |-> email, password |-> password])
                      EXCEPT !.access = r.access, !.refresh = r.refresh]
        /\ UNCHANGED <<pending, hashed, users, authenticators, now, issued, presented, req>>

(***************************************************************************)
(* POST /refresh (api/auth.py refresh_token).  `user` is not a name of the *)
(* handler: reading it is a NameError.                                     *)
(***************************************************************************)
refresh_token_result(token, t) ==
    IF TokenService(1) # OK
    THEN [out |-> TokenService(1), access |-> NoToken, refresh |-> NoToken]
    ELSE IF verify_token(token, "refresh", t).out # OK
    THEN [out |-> verify_token(token, "refresh", t).out,
          access |-> NoToken, refresh |-> NoToken]
    ELSE [out |-> Unhandled("NameError"), access |-> NoToken, refresh |-> NoToken]

refresh_token(token) ==
    LET r == refresh_token_result(token, now) IN
    /\ resp' = [Resp("refresh_token", r.out, [token |-> token])
                  EXCEPT !.access = r.access, !.refresh = r.refresh]
    /\ UNCHANGED <<pending, hashed, users, authenticators, tokens, now, issued, presented, req>>

(***************************************************************************)
(* TokenService / AuthService called directly.                             *)
(***************************************************************************)
\* AuthService.create_tokens: an access and a refresh token for user_id.
create_tokens(user_id) ==
    LET access == create_access_token(user_id, now)
        refresh == create_refresh_token(user_id, now)
    IN  /\ Cardinality(tokens \cup {access, refresh}) <= MaxTokens
        /\ tokens' = tokens \cup {access, refresh}
        /\ resp' = [Resp("create_tokens", OK, [user_id |-> user_id])
                      EXCEPT !.access = access, !.refresh = refresh]
        /\ UNCHANGED <<pending, hashed, users, authenticators, now, issued, presented, req>>

\* TokenService.verify_token(token, token_type).
verify_token_call(token, token_type) ==
    LET r == verify_token(token, token_type, now) IN
    /\ resp' = [Resp("verify_token", r.out, [token |-> token, token_type |-> token_type])
                  EXCEPT !.subject = r.user_id]
    /\ UNCHANGED <<pending, hashed, users, authenticators, tokens, now, issued, presented, req>>

\* AuthService.refresh_tokens: `return self.create_tokens(...)` hands back the
\* coroutine of create_tokens, which is never run: no token is made.
refresh_tokens_result(refresh_token_, t) ==
    LET token_data == verify_token(refresh_token_, "refresh", t) IN
    IF token_data.out # OK
    THEN [out |-> token_data.out, access |-> NoToken, refresh |-> NoToken]
    ELSE [out |-> Return(200, "<coroutine object AuthService.create_tokens>", ""),
          access |-> NoToken, refresh |-> NoToken]

refresh_tokens(refresh_token_) ==
    LET r == refresh_tokens_result(refresh_token_, now) IN
    /\ resp' = [Resp("refresh_tokens", r.out, [token |-> refresh_token_])
                  EXCEPT !.access = r.access, !.refresh = r.refresh]
    /\ UNCHANGED <<pending, hashed, users, authenticators, tokens, now, issued, presented, req>>

\* PasswordService.hash_password: pwd_context.hash draws a new random salt.
\* hashed keeps every password hashed with the string returned for it.
hash_password_call(password, salt) ==
    /\ salt \notin {h.hash.salt : h \in hashed}
    /\ hashed' = hashed \cup {[password |-> password, hash |-> hash_password(password, salt)]}
    /\ resp' = Resp("hash_password", OK, [password |-> password])
    /\ UNCHANGED <<pending, users, authenticators, tokens, now, issued, presented, req>>

\* PasswordService.verify_password: the bool pwd_context.verify returns, or
\* the exception it raises.
verify_password_call(plain_password, hashed_password) ==
    LET r == verify_password(plain_password, hashed_password)
        out == IF r = "raise" THEN Unhandled("UnknownHashError") ELSE Return(200, r, "")
    IN  /\ resp' = Resp("verify_password", out,
                        [plain_password |-> plain_password,
                         hashed_password |-> hashed_password])
        /\ UNCHANGED <<pending, hashed, users, authenticators, tokens, now, issued, presented, req>>

\* A protected request: the CurrentUser dependency (get_current_user).
CurrentUser(token) ==
    LET r == get_current_user(token, now) IN
    /\ resp' = [Resp("get_current_user", r.out, [token |-> token])
                  EXCEPT !.user = r.user]
    /\ UNCHANGED <<pending, hashed, users, authenticators, tokens, now, issued, presented, req>>

\* Wall-clock time passes.
Tick ==
    /\ now < MaxTime
    /\ now' = now + 1
    /\ UNCHANGED <<pending, hashed, users, authenticators, tokens, issued, presented, resp, req>>

(***************************************************************************)
(* The WebAuthn endpoints of api/auth.py.  They call the webauthn library  *)
(* themselves; no challenge is stored between the two requests of a        *)
(* ceremony.                                                               *)
(***************************************************************************)
\* Variant: the handler keeps a generated challenge and never clears it.
register_expected_challenge_kept ==
    IF issued = {} THEN None ELSE (CHOOSE i \in issued : TRUE).challenge

\* expected_challenge=None of webauthn_verify_register.
register_expected_challenge == None

\* expected_challenge=None of webauthn_verify_authentication.
authenticate_expected_challenge == None

\* POST /webauthn/register/generate-options.  The library draws the challenge;
\* WebAuthnRegisterOptions(public_key=options) lacks every required field.
webauthn_generate_register_options(token, c) ==
    LET cu == get_current_user(token, now)
        out == IF cu.out # OK THEN cu.out
               ELSE IF ~validates(WebAuthnRegisterOptionsFields, {"public_key"})
               THEN Unhandled("ValidationError")
               ELSE OK
    IN  /\ c \in Unused
        /\ issued' = IF cu.out = OK
                     THEN issued \cup {Drawn(c, "registration", cu.user.id)}
                     ELSE issued
        /\ resp' = [Resp("webauthn_generate_register_options", out, [token |-> token])
                      EXCEPT !.user = cu.user,
                             !.challenge = IF out = OK THEN c ELSE None]
        /\ UNCHANGED <<pending, hashed, users, authenticators, tokens, now, presented, req>>

\* GET /webauthn/authenticate/generate-options.
webauthn_generate_authentication_options(c) ==
    LET out == IF ~validates(WebAuthnAuthenticationOptionsFields, {"public_key"})
               THEN Unhandled("ValidationError")
               ELSE OK
    IN  /\ c \in Unused
        /\ issued' = issued \cup {Drawn(c, "authentication", 0)}
        /\ resp' = [Resp("webauthn_generate_authentication_options", out, NoInput)
                      EXCEPT !.challenge = IF out = OK THEN c ELSE None]
        /\ UNCHANGED <<pending, hashed, users, authenticators, tokens, now, presented, req>>

\* Variant: the expected challenge is read from the response itself.
webauthn_verify_register_result_echo(current_user, credential) ==
    LET reason == verify_registration_response(credential, credential.challenge)
    IN  IF reason # ""
        THEN [out |-> HTTPException(400, reason), authenticators |-> authenticators]
        ELSE [out |-> Return(200, "Registration successful", ""),
              authenticators |-> authenticators]

\* The try block of webauthn_verify_register.  db.commit() is not awaited:
\* the coroutine never runs and the session closes with the row pending.
webauthn_verify_register_result(current_user, credential) ==
    LET reason == verify_registration_response(credential, register_expected_challenge)
    IN  IF reason # ""
        THEN [out |-> HTTPException(400, reason), authenticators |-> authenticators]
        ELSE [out |-> Return(200, "Registration successful", ""),
              authenticators |-> authenticators]

\* POST /webauthn/register/verify.
webauthn_verify_register(token, credential) ==
    LET cu == get_current_user(token, now)
        r == IF cu.out # OK
             THEN [out |-> cu.out, authenticators |-> authenticators]
             ELSE webauthn_verify_register_result(cu.user, credential)
    IN  /\ authenticators' = r.authenticators
        /\ presented' = IF cu.out = OK THEN presented \cup {credential.challenge}
                        ELSE presented
        /\ resp' = [Resp("webauthn_verify_register", r.out,
                         [token |-> token, credential |-> credential])
                      EXCEPT !.user = cu.user,
                             !.replay = Replay(credential.challenge),
                             !.fresh = Fresh(credential.challenge, "registration")]
        /\ UNCHANGED <<pending, hashed, users, tokens, now, issued, req>>

\* Variant: the first row of the table, whatever its credential_id.
by_credential_id_any(val) ==
    IF authenticators # {} THEN CHOOSE a \in authenticators : TRUE ELSE NoAuthenticator

\* Authenticator rows whose credential_id equals val, None when there is none.
by_credential_id(val) ==
    IF \E a \in authenticators : a.credential_id = val
    THEN CHOOSE a \in authenticators : a.credential_id = val
    ELSE NoAuthenticator

\* The row of `authenticator` with its counter and last-used time written.
update_sign_count(authenticator, new_sign_count, t) ==
    {IF a.credential_id = authenticator.credential_id
     THEN [a EXCEPT !.sign_count = new_sign_count, !.last_used_at = t]
     ELSE a : a \in authenticators}

\* Variant: a token is made for the owner of whatever authenticator is found,
\* the response unverified.
webauthn_verify_authentication_result_unverified(credential, t) ==
    LET authenticator == by_credential_id(credential.id) IN
    IF authenticator = NoAuthenticator
    THEN [out |-> HTTPException(400, "400: Authenticator not found"),
          authenticators |-> authenticators, access |-> NoToken]
    ELSE [out |-> OK,
          authenticators |-> update_sign_count(authenticator, credential.sign_count, t),
          access |-> [sub |-> str(IntId(authenticator.user_id)), exp |-> NoExp,
                      type |-> "none", sig |-> "ok"]]

\* The try block of webauthn_verify_authentication; every exception in it,
\* the HTTPException of a missing authenticator included, becomes a 400.
webauthn_verify_authentication_result(credential, t) ==
    LET authenticator == by_credential_id(credential.id)
        reason == verify_authentication_response(
                      credential, authenticate_expected_challenge,
                      authenticator.public_key, authenticator.sign_count)
        unchanged(out) == [out |-> out, authenticators |-> authenticators,
                           access |-> NoToken]
    IN  IF "query" \notin AsyncSessionAttributes
        THEN unchanged(HTTPException(400, "'AsyncSession' object has no attribute 'query'"))
        ELSE IF authenticator = NoAuthenticator
        THEN unchanged(HTTPException(400, "400: Authenticator not found"))
        ELSE IF reason # ""
        THEN unchanged(HTTPException(400, reason))
        ELSE IF "TOKEN_ALGORITHM" \notin SettingsFields
        THEN [out |-> HTTPException(400, "'Settings' object has no attribute 'TOKEN_ALGORITHM'"),
              authenticators |-> update_sign_count(authenticator, credential.sign_count, t),
              access |-> NoToken]
        ELSE [out |-> OK,
              authenticators |-> update_sign_count(authenticator, credential.sign_count, t),
              access |-> [sub |-> str(IntId(authenticator.user_id)), exp |-> NoExp,
                          type |-> "none", sig |-> "ok"]]

\* POST /webauthn/authenticate/verify.
webauthn_verify_authentication(credential) ==
    LET r == webauthn_verify_authentication_result(credential, now)
        issuedNow == {r.access} \ {NoToken}
    IN  /\ Cardinality(tokens \cup issuedNow) <= MaxTokens
        /\ authenticators' = r.authenticators
        /\ tokens' = tokens \cup issuedNow
        /\ presented' = presented \cup {credential.challenge}
        /\ resp' = [Resp("webauthn_verify_authentication", r.out,
                         [credential |-> credential])
                      EXCEPT !.access = r.access,
                             !.replay = Replay(credential.challenge),
                             !.fresh = Fresh(credential.challenge, "authentication")]
        /\ UNCHANGED <<pending, hashed, users, now, issued, req>>

(***************************************************************************)
(* WebAuthnService (services/webauthn.py).                                 *)
(***************************************************************************)
\* Variant: the attribute is assigned from the responses that come in.
self_current_challenge_set ==
    [exc |-> "", value |-> IF presented = {} THEN None ELSE CHOOSE c \in presented : TRUE]

\* self.current_challenge, the expected challenge of both verify methods:
\* exc names the exception the read raises.
self_current_challenge ==
    IF "current_challenge" \in WebAuthnServiceAttributes
    THEN [exc |-> "", value |-> None]
    ELSE [exc |-> "AttributeError", value |-> None]

no_current_challenge == "'WebAuthnService' object has no attribute 'current_challenge'"

\* Keyword arguments Authenticator(...) takes: its columns and relationship.
AuthenticatorAttributes ==
    {"id", "credential_id", "public_key", "sign_count", "user_id", "last_used_at",
     "user", "created_at", "updated_at"}

\* options_to_json returns the options as a JSON string.
options_to_json_type == "str"

\* generate_registration_opts: `**` applied to the string is a TypeError.
generate_registration_opts(user, c) ==
    LET out == IF options_to_json_type # "dict" THEN Unhandled("TypeError") ELSE OK
    IN  /\ c \in Unused
        /\ issued' = issued \cup {Drawn(c, "registration", user.id)}
        /\ resp' = [Resp("generate_registration_opts", out, [user |-> user])
                      EXCEPT !.challenge = IF out = OK THEN c ELSE None]
        /\ UNCHANGED <<pending, hashed, users, authenticators, tokens, now, presented, req>>

\* Variant: the record is added and committed, nothing checked.
verify_registration_result_stored(user, credential) ==
    [out |-> OK,
     authenticators |-> authenticators \cup
         {Authenticator(user.id, base64url_to_bytes(credential.id),
                        PublicKeyOf(credential), credential.sign_count)}]

\* Variant: the record is added and committed before the response is verified.
verify_registration_result_added_first(user, credential) ==
    [out |-> HTTPException(400, no_current_challenge),
     authenticators |-> authenticators \cup
         {Authenticator(user.id, base64url_to_bytes(credential.id),
                        PublicKeyOf(credential), credential.sign_count)}]

\* Variant: one store of challenges for every ceremony and user; a response
\* verifies against any challenge in it.
verify_registration_result_unbound(user, credential) ==
    LET expected == IF \E i \in issued : i.challenge = credential.challenge
                    THEN credential.challenge ELSE None
        reason == verify_registration_response(credential, expected)
    IN  IF reason # ""
        THEN [out |-> HTTPException(400, reason), authenticators |-> authenticators]
        ELSE [out |-> OK, authenticators |-> authenticators]

\* The try block of verify_registration; its except turns every exception
\* into HTTPException(400, "Registration verification failed: ...").
verify_registration_result(user, credential) ==
    LET reason == verify_registration_response(credential, self_current_challenge.value)
        credential_id == base64url_to_bytes(credential.id)
        failed(detail) == [out |-> HTTPException(400, detail),
                           authenticators |-> authenticators]
    IN  IF self_current_challenge.exc # "" THEN failed(no_current_challenge)
        ELSE IF reason # "" THEN failed(reason)
        ELSE IF ~validates(AuthenticatorCreateFields,
                           {"credential_id", "public_key", "sign_count"})
        THEN failed("validation errors for AuthenticatorCreate")
        ELSE IF ~(AuthenticatorCreateFields \subseteq AuthenticatorAttributes)
        THEN failed("invalid keyword argument for Authenticator")
        ELSE IF by_credential_id(credential_id) # NoAuthenticator
        THEN failed("UNIQUE constraint failed: authenticators.credential_id")
        ELSE [out |-> OK,
              authenticators |-> authenticators \cup
                  {Authenticator(user.id, credential_id, PublicKeyOf(credential),
                                 credential.sign_count)}]

verify_registration(user, credential) ==
    LET r == verify_registration_result(user, credential) IN
    /\ authenticators' = r.authenticators
    /\ presented' = presented \cup {credential.challenge}
    /\ resp' = [Resp("verify_registration", r.out,
                     [user |-> user, credential |-> credential])
                  EXCEPT !.user = user,
                         !.replay = Replay(credential.challenge),
                         !.fresh = Fresh(credential.challenge, "registration")]
    /\ UNCHANGED <<pending, hashed, users, tokens, now, issued, req>>

\* generate_authentication_options(user): bytes_to_base64url takes bytes; the
\* allow_credentials entries are dicts, whose .id options_to_json reads.
generate_authentication_options(user, c) ==
    LET mine == {a \in authenticators : a.user_id = user.id}
        drawn == mine # {} /\ \A a \in mine : a.credential_id.form = "bytes"
        out == IF mine = {}
               THEN HTTPException(400, "No authenticators registered for user")
               ELSE IF ~drawn THEN Unhandled("TypeError")
               ELSE Unhandled("AttributeError")
    IN  /\ c \in Unused
        /\ issued' = IF drawn THEN issued \cup {Drawn(c, "authentication", user.id)}
                     ELSE issued
        /\ resp' = Resp("generate_authentication_options", out, [user |-> user])
        /\ UNCHANGED <<pending, hashed, users, authenticators, tokens, now, presented, req>>

(***************************************************************************)
(* verify_authentication runs in two steps: the SELECT of the              *)
(* authenticator is awaited, and other requests run before the method      *)
(* resumes with the row it loaded.  req[r] is request r: pc, the response  *)
(* it carries, the row loaded, its outcome, whether another request was    *)
(* between its two steps at the same time, and replay and fresh as the     *)
(* call found them.                                                        *)
(***************************************************************************)
Reqs == 1..2

IdleReq == [pc |-> "idle", credential |-> NoCredential,
            authenticator |-> NoAuthenticator, out |-> OK, overlap |-> FALSE,
            replay |-> FALSE, fresh |-> FALSE]

verify_authentication_lookup(r, credential) ==
    LET others == {q \in Reqs \ {r} : req[q].pc = "looked"} IN
    /\ req[r].pc # "looked"
    /\ req' = [q \in Reqs |->
                 IF q = r
                 THEN [pc |-> "looked", credential |-> credential,
                       authenticator |-> by_credential_id(base64url_to_bytes(credential.id)),
                       out |-> OK, overlap |-> others # {},
                       replay |-> Replay(credential.challenge),
                       fresh |-> Fresh(credential.challenge, "authentication")]
                 ELSE IF q \in others THEN [req[q] EXCEPT !.overlap = TRUE]
                 ELSE req[q]]
    /\ presented' = presented \cup {credential.challenge}
    /\ UNCHANGED <<pending, hashed, users, authenticators, tokens, now, issued, resp>>

\* Variant: the response is not verified; a found authenticator is enough.
verify_authentication_result_unverified(authenticator, credential, t) ==
    IF authenticator = NoAuthenticator
    THEN [out |-> HTTPException(401, "400: Authenticator not found"),
          authenticators |-> authenticators, user |-> NoUser]
    ELSE [out |-> OK,
          authenticators |-> update_sign_count(authenticator, credential.sign_count, t),
          user |-> get_user_by_id(IntId(authenticator.user_id))]

\* Variant: the counter is written and committed before the response is verified.
verify_authentication_result_written(authenticator, credential, t) ==
    IF authenticator = NoAuthenticator
    THEN [out |-> HTTPException(401, "400: Authenticator not found"),
          authenticators |-> authenticators, user |-> NoUser]
    ELSE [out |-> HTTPException(401, no_current_challenge),
          authenticators |-> update_sign_count(authenticator, credential.sign_count, t),
          user |-> NoUser]

\* The rest of the try block, from `if not authenticator` to the return;
\* its except turns every exception into HTTPException(401, ...).
verify_authentication_result(authenticator, credential, t) ==
    LET reason == verify_authentication_response(
                      credential, self_current_challenge.value,
                      authenticator.public_key, authenticator.sign_count)
        failed(detail) == [out |-> HTTPException(401, detail),
                           authenticators |-> authenticators, user |-> NoUser]
        written == update_sign_count(authenticator, credential.sign_count, t)
    IN  IF authenticator = NoAuthenticator THEN failed("400: Authenticator not found")
        ELSE IF self_current_challenge.exc # "" THEN failed(no_current_challenge)
        ELSE IF reason # "" THEN failed(reason)
        ELSE IF get_user_by_id(IntId(authenticator.user_id)) = NoUser
        THEN [out |-> HTTPException(401, "No row was found when one was required"),
              authenticators |-> written, user |-> NoUser]
        ELSE [out |-> OK, authenticators |-> written,
              user |-> get_user_by_id(IntId(authenticator.user_id))]

verify_authentication_finish(r) ==
    LET v == verify_authentication_result(req[r].authenticator, req[r].credential, now) IN
    /\ req[r].pc = "looked"
    /\ authenticators' = v.authenticators
    /\ req' = [req EXCEPT ![r].pc = "done", ![r].out = v.out]
    /\ resp' = [Resp("verify_authentication", v.out, [credential |-> req[r].credential])
                  EXCEPT !.user = v.user, !.replay = req[r].replay,
                         !.fresh = req[r].fresh]
    /\ UNCHANGED <<pending, hashed, users, tokens, now, issued, presented>>

(***************************************************************************)
(* The same calls while the database cannot be reached: session.execute    *)
(* raises sqlalchemy.exc.OperationalError.  reached tells whether the call *)
(* got as far as the statement that uses the session.                      *)
(***************************************************************************)
OperationalError == "(sqlite3.OperationalError) unable to open database file"

Unavailable(input, reached) ==
    [input |-> input, store |-> "unavailable", reached |-> reached]

\* login: get_user_by_email raises in authenticate_user; nothing catches it.
login_unavailable(email, password) ==
    /\ resp' = Resp("login", Unhandled("OperationalError"),
                    Unavailable([email |-> email, password |-> password], TRUE))
    /\ UNCHANGED <<pending, hashed, users, authenticators, tokens, now, issued, presented, req>>

\* get_current_user: the token is decoded first, then the user is selected.
CurrentUser_unavailable(token) ==
    LET decoded == jwt_decode_ok(token, now) /\ token.sub # NoSub
        out == IF decoded THEN Unhandled("OperationalError") ELSE credentials_exception
    IN  /\ resp' = Resp("get_current_user", out, Unavailable([token |-> token], decoded))
        /\ UNCHANGED <<pending, hashed, users, authenticators, tokens, now, issued, presented, req>>

\* WebAuthnService.verify_registration: self.current_challenge is read before
\* the session is used.
verify_registration_unavailable(user, credential) ==
    LET reason == verify_registration_response(credential, self_current_challenge.value)
        reached == self_current_challenge.exc = "" /\ reason = ""
                      /\ validates(AuthenticatorCreateFields,
                                   {"credential_id", "public_key", "sign_count"})
        out == IF self_current_challenge.exc # "" THEN HTTPException(400, no_current_challenge)
               ELSE IF reason # "" THEN HTTPException(400, reason)
               ELSE IF ~reached
               THEN HTTPException(400, "validation errors for AuthenticatorCreate")
               ELSE HTTPException(400, OperationalError)
    IN  /\ presented' = presented \cup {credential.challenge}
        /\ resp' = [Resp("verify_registration", out,
                         Unavailable([user |-> user, credential |-> credential], reached))
                      EXCEPT !.user = user]
        /\ UNCHANGED <<pending, hashed, users, authenticators, tokens, now, issued, req>>

\* WebAuthnService.verify_authentication: the select of the authenticator
\* raises inside the try block, whose except makes it a 401.
verify_authentication_unavailable(credential) ==
    /\ presented' = presented \cup {credential.challenge}
    /\ resp' = Resp("verify_authentication", HTTPException(401, OperationalError),
                    Unavailable([credential |-> credential], TRUE))
    /\ UNCHANGED <<pending, hashed, users, authenticators, tokens, now, issued, req>>

\* webauthn_verify_authentication: db.query raises before the database is used.
webauthn_verify_authentication_unavailable(credential) ==
    LET reached == "query" \in AsyncSessionAttributes
        out == IF reached THEN HTTPException(400, OperationalError)
               ELSE HTTPException(400, "'AsyncSession' object has no attribute 'query'")
    IN  /\ presented' = presented \cup {credential.challenge}
        /\ resp' = Resp("webauthn_verify_authentication", out,
                        Unavailable([credential |-> credential], reached))
        /\ UNCHANGED <<pending, hashed, users, authenticators, tokens, now, issued, req>>

(***************************************************************************)
(* Initial states.  The database outlives the process: a run starts on any *)
(* contents that satisfy the schema (unique emails and credential IDs,     *)
(* every authenticator owned by a user).  No token and no challenge has    *)
(* been made yet.                                                          *)
(***************************************************************************)
Alice(active) == UserRow(1, "a@x.com", hash_password("p@ss1234", 1), active)
Bob == UserRow(2, "b@x.com", NoHash, TRUE)

InitUsers == {{}, {Alice(TRUE)}, {Alice(FALSE)}, {Alice(TRUE), Bob}, {Alice(FALSE), Bob}}

\* One stored passkey of Alice, its credential ID kept as bytes or as text.
InitAuthenticators ==
    {{}} \cup {{Authenticator(1, id, 1, n)} :
                  id \in {CredBytes(1), CredText(1)}, n \in 0..MaxCount}

InitWith(userTables, authenticatorTables) ==
    /\ users \in userTables
    /\ authenticators \in authenticatorTables
    /\ tokens = {}
    /\ now = 0
    /\ issued = {}
    /\ presented = {}
    /\ req = [r \in Reqs |-> IdleReq]
    /\ resp = Resp("", OK, NoInput)
    /\ hashed = {}
    /\ pending = [w \in Writers |-> IdleWrite]

Init == InitWith(InitUsers, {{}})

\* Genuine responses of the passkey with credential ID 1.
PasskeyLogins ==
    {cr \in Credentials : cr.id = CredText(1) /\ cr.challenge = 1 /\ cr.flaw = "none"
                            /\ cr.sign_count = 1}

(***************************************************************************)
(* Passwords and tokens.                                                   *)
(***************************************************************************)
NextTokens ==
    \/ \E email \in Emails, password \in Passwords \cup {NoPassword} :
           register_user(email, password)
    \/ \E email \in Emails, password \in Passwords : login(email, password)
    \/ \E token \in Presentable : refresh_token(token)
    \/ \E user_id \in IdInputs : create_tokens(user_id)
    \/ \E token \in Presentable, token_type \in {"access", "refresh"} :
           verify_token_call(token, token_type)
    \/ \E token \in Presentable : refresh_tokens(token)
    \/ \E token \in Presentable : CurrentUser(token)
    \/ \E credential \in PasskeyLogins : webauthn_verify_authentication(credential)
    \/ Tick

SpecTokens == Init /\ [][NextTokens]_vars

(***************************************************************************)
(* PasswordService on its own: passwords are hashed, and passwords are     *)
(* verified against the hashes made and against a string that is no hash.  *)
(***************************************************************************)
PasswordInputs == Passwords \cup LongPasswords

NextPasswords ==
    \/ \E password \in PasswordInputs, salt \in Salts : hash_password_call(password, salt)
    \/ \E password \in PasswordInputs,
          hashed_password \in {h.hash : h \in hashed} \cup {MalformedHash} :
           verify_password_call(password, hashed_password)

SpecPasswords == Init /\ [][NextPasswords]_vars

(***************************************************************************)
(* The two ceremonies, request after request.                              *)
(***************************************************************************)
InitCeremony ==
    InitWith({{Alice(TRUE)}}, {{}, {Authenticator(1, CredBytes(1), 1, 0)}})

\* Genuine responses of an authenticator that keeps no counter: nothing but
\* the challenge can be wrong with them.  Those of the stored passkey.
CeremonyCredentials == {cr \in Credentials : cr.sign_count = 0 /\ cr.flaw = "none"}
StoredPasskeyCredentials == {cr \in CeremonyCredentials : cr.id = CredText(1)}

NextCeremony ==
    \/ \E u \in users : create_tokens(IntId(u.id))
    \/ \E token \in tokens \cup {ForgedToken}, c \in Challenges :
           webauthn_generate_register_options(token, c)
    \/ \E c \in Challenges : webauthn_generate_authentication_options(c)
    \/ \E token \in tokens \cup {ForgedToken}, credential \in CeremonyCredentials :
           webauthn_verify_register(token, credential)
    \/ \E credential \in CeremonyCredentials : webauthn_verify_authentication(credential)
    \/ \E u \in users, c \in Challenges : generate_registration_opts(u, c)
    \/ \E u \in users, credential \in CeremonyCredentials :
           verify_registration(u, credential)
    \/ \E credential \in StoredPasskeyCredentials :
           verify_authentication_lookup(1, credential)
    \/ verify_authentication_finish(1)

SpecCeremony == InitCeremony /\ [][NextCeremony]_vars

(***************************************************************************)
(* Registration by two users, with responses that fail each of the         *)
(* relying party's checks.                                                 *)
(***************************************************************************)
InitRegister ==
    InitWith({{Alice(TRUE), Bob}}, {{}, {Authenticator(1, CredBytes(1), 1, 0)}})

RegisterCredentials == {cr \in Credentials : cr.sign_count = 0}

NextRegister ==
    \/ \E u \in users : create_tokens(IntId(u.id))
    \/ \E token \in tokens, c \in Challenges :
           webauthn_generate_register_options(token, c)
    \/ \E token \in tokens, credential \in RegisterCredentials :
           webauthn_verify_register(token, credential)
    \/ \E u \in users, c \in Challenges : generate_registration_opts(u, c)
    \/ \E u \in users, credential \in RegisterCredentials :
           verify_registration(u, credential)

SpecRegister == InitRegister /\ [][NextRegister]_vars

(***************************************************************************)
(* Challenges of both ceremonies and of two users, presented to either     *)
(* verify method of the service.                                           *)
(***************************************************************************)
NextBinding ==
    \/ \E u \in users, c \in Challenges : generate_registration_opts(u, c)
    \/ \E u \in users, c \in Challenges : generate_authentication_options(u, c)
    \/ \E c \in Challenges : webauthn_generate_authentication_options(c)
    \/ \E u \in users, credential \in CeremonyCredentials :
           verify_registration(u, credential)
    \/ \E credential \in CeremonyCredentials :
           verify_authentication_lookup(1, credential)
    \/ verify_authentication_finish(1)

SpecBinding == InitRegister /\ [][NextBinding]_vars

(***************************************************************************)
(* Authentication requests against a stored passkey, one at a time.        *)
(***************************************************************************)
InitAuthn == InitWith({{Alice(TRUE)}}, InitAuthenticators)

AuthnCredentials == {cr \in Credentials : cr.challenge = 1}

NextAuthn ==
    \/ \E credential \in AuthnCredentials : webauthn_verify_authentication(credential)
    \/ \E credential \in AuthnCredentials : verify_authentication_lookup(1, credential)
    \/ verify_authentication_finish(1)

SpecAuthn == InitAuthn /\ [][NextAuthn]_vars

(***************************************************************************)
(* Two requests of WebAuthnService.verify_authentication for the same      *)
(* passkey, their steps interleaved.                                       *)
(***************************************************************************)
RaceCredentials ==
    {cr \in Credentials : cr.challenge = 1 /\ cr.flaw = "none" /\ cr.id = CredText(1)}

NextRace ==
    \/ \E r \in Reqs, credential \in RaceCredentials :
           verify_authentication_lookup(r, credential)
    \/ \E r \in Reqs : verify_authentication_finish(r)
    \/ \E u \in users, c \in Challenges : generate_authentication_options(u, c)

SpecRace == InitAuthn /\ [][NextRace]_vars

(***************************************************************************)
(* Requests that arrive while the database is down.                        *)
(***************************************************************************)
NextOutage ==
    \/ \E u \in users : create_tokens(IntId(u.id))
    \/ \E email \in Emails, password \in Passwords : login_unavailable(email, password)
    \/ \E token \in Presentable : CurrentUser_unavailable(token)
    \/ \E u \in users, credential \in AuthnCredentials :
           verify_registration_unavailable(u, credential)
    \/ \E credential \in AuthnCredentials : verify_authentication_unavailable(credential)
    \/ \E credential \in AuthnCredentials :
           webauthn_verify_authentication_unavailable(credential)

SpecOutage == InitAuthn /\ [][NextOutage]_vars

(***************************************************************************)
(* The whole system.                                                       *)
(***************************************************************************)
(***************************************************************************)
(* Every kind of operation against one stored passkey of Alice.            *)
(***************************************************************************)
InitFrame == InitWith({{Alice(TRUE)}}, {{Authenticator(1, CredBytes(1), 1, 1)}})

FrameCredentials == {cr \in Credentials : cr.challenge = 1 /\ cr.flaw = "none" /\ cr.sign_count \in {0, 2}}

NextFrame ==
    \/ \E email \in Emails : register_user(email, NoPassword)
    \/ \E user_id \in {IntId(1), UuidId(1)}, email \in Emails \cup {NoEmail},
          password \in {"p@ss1234", NoPassword} : update_user(user_id, email, password)
    \/ \E email \in Emails : login(email, "p@ss1234")
    \/ \E u \in users : create_tokens(IntId(u.id))
    \/ \E token \in tokens : refresh_token(token)
    \/ \E token \in tokens : webauthn_generate_register_options(token, 1)
    \/ webauthn_generate_authentication_options(1)
    \/ \E u \in users : generate_registration_opts(u, 1)
    \/ \E u \in users : generate_authentication_options(u, 1)
    \/ \E token \in tokens, credential \in FrameCredentials :
           webauthn_verify_register(token, credential)
    \/ \E u \in users, credential \in FrameCredentials : verify_registration(u, credential)
    \/ \E credential \in FrameCredentials : webauthn_verify_authentication(credential)
    \/ \E credential \in FrameCredentials : verify_authentication_lookup(1, credential)
    \/ verify_authentication_finish(1)

SpecFrame == InitFrame /\ [][NextFrame]_vars

(***************************************************************************)
(* Protected requests of two users, with genuine, expired, tampered and    *)
(* forged tokens.                                                          *)
(***************************************************************************)
ProtectedCredentials ==
    {cr \in Credentials : cr.challenge = 1 /\ cr.sign_count = 0 /\ cr.flaw \in {"none", "origin"}}

NextProtected ==
    \/ \E user_id \in IdInputs : create_tokens(user_id)
    \/ \E token \in Presentable : CurrentUser(token)
    \/ \E token \in Presentable : webauthn_generate_register_options(token, 1)
    \/ \E token \in Presentable, credential \in ProtectedCredentials :
           webauthn_verify_register(token, credential)
    \/ Tick

SpecProtected == InitRegister /\ [][NextProtected]_vars

(***************************************************************************)
(* Two requests that create and update users, their steps interleaved.     *)
(***************************************************************************)
InitDirectory == InitWith({{}, {Alice(TRUE)}}, {{}})

NextUsers ==
    \/ \E w \in Writers, email \in Emails, password \in {"p@ss1234", NoPassword} :
           create_user_check(w, email, password)
    \/ \E w \in Writers : create_user_commit(w)
    \/ \E w \in Writers, user_id \in IdInputs, email \in Emails \cup {NoEmail},
          password \in {"p@ss1234", NoPassword} :
           update_user_check(w, user_id, email, password)
    \/ \E w \in Writers : update_user_commit(w)

SpecUsers == InitDirectory /\ [][NextUsers]_vars

(***************************************************************************)
(* Passwords set at registration and by update_user, then tried at login.  *)
(***************************************************************************)
NextCredentials ==
    \/ \E email \in Emails, password \in Passwords \cup {NoPassword} :
           register_user(email, password)
    \/ \E user_id \in IdInputs, email \in Emails \cup {NoEmail},
          password \in Passwords \cup {NoPassword} : update_user(user_id, email, password)
    \/ \E email \in Emails, password \in Passwords : login(email, password)

SpecCredentials == InitDirectory /\ [][NextCredentials]_vars

Next ==
    \/ NextTokens
    \/ NextCeremony
    \/ NextRegister
    \/ NextPasswords
    \/ NextBinding
    \/ NextAuthn
    \/ NextRace
    \/ NextOutage
    \/ NextFrame
    \/ NextProtected
    \/ NextUsers
    \/ NextCredentials

Spec == InitWith(InitUsers, InitAuthenticators) /\ [][Next]_vars

(***************************************************************************)
(* Properties.                                                             *)
(***************************************************************************)
VerifyOps ==
    {"webauthn_verify_register", "webauthn_verify_authentication",
     "verify_registration", "verify_authentication"}
AuthVerifyOps == {"webauthn_verify_authentication", "verify_authentication"}
\* The operations that are handed a token, and those of them that decode it.
TokenReadingOps == {"verify_token", "get_current_user", "refresh_token", "refresh_tokens"}
TokenVerifyingOps == {"verify_token", "get_current_user", "refresh_tokens"}

Rejected == resp.out.status \in {400, 401}
NothingGranted ==
    /\ resp.access = NoToken
    /\ resp.refresh = NoToken
    /\ authenticators = resp.before

ResolvedRows ==
    {a \in resp.before : a.credential_id.v = resp.input.credential.id.v}

CounterAdvances(new, stored) == new > stored \/ (new = 0 /\ stored = 0)

C4_FailureChangesNothing ==
    (resp.op \in AuthVerifyOps /\ resp.out.status # 200) => authenticators = resp.before

\* A failed call for a stored passkey with a counter other than the stored one.
C4_Witness ==
    /\ resp.op = "verify_authentication"
    /\ resp.out.status = 401
    /\ \E a \in authenticators :
          /\ a.credential_id = base64url_to_bytes(resp.input.credential.id)
          /\ a.sign_count # resp.input.credential.sign_count

\* Two finished requests that were under way at the same time, loaded the same
\* stored row and carry the same new counter.
Concurrent(r1, r2) ==
    /\ r1 # r2
    /\ req[r1].pc = "done" /\ req[r2].pc = "done"
    /\ req[r1].overlap /\ req[r2].overlap
    /\ req[r1].authenticator # NoAuthenticator
    /\ req[r1].authenticator = req[r2].authenticator
    /\ req[r1].credential.sign_count = req[r2].credential.sign_count

C6_KindSeparation ==
    /\ (resp.op = "get_current_user" /\ resp.out.status = 200)
          => resp.input.token.type = "access"
    /\ (resp.op \in {"refresh_token", "refresh_tokens"} /\ resp.out.status = 200)
          => resp.input.token.type = "refresh"
    /\ (resp.op = "verify_token" /\ resp.out.status = 200)
          => resp.input.token.type = resp.input.token_type

InvalidCredentials == HTTPException(401, "Incorrect email or password")

\* C8: login answers with an access and a refresh token of the user exactly
\* when a user with that email exists, has a password hash and the password
\* verifies against it; otherwise it answers InvalidCredentials with no token.
C8_LoginIffCredentialsValid ==
    resp.op = "login" =>
        LET user == get_user_by_email(resp.input.email)
            valid == /\ user # NoUser
                     /\ user.password_hash # NoHash
                     /\ verify_password(resp.input.password, user.password_hash) = "true"
        IN  /\ valid => /\ resp.out.status = 200
                        /\ resp.access = create_access_token(IntId(user.id), resp.at)
                        /\ resp.refresh = create_refresh_token(IntId(user.id), resp.at)
            /\ ~valid => /\ resp.out = InvalidCredentials
                         /\ resp.access = NoToken /\ resp.refresh = NoToken

\* C9: every failed login gets the same answer, the one an unknown email gets.
C9_SameRejection ==
    (resp.op = "login" /\ resp.out.status # 200) => resp.out = InvalidCredentials

\* C10: refresh with an issued, unexpired refresh token returns an access and
\* a refresh token with the subject of the token presented.
C10_RefreshKeepsSubject ==
    (/\ resp.op \in {"refresh_token", "refresh_tokens"}
     /\ resp.input.token \in tokens
     /\ resp.input.token.type = "refresh"
     /\ resp.at <= resp.input.token.exp)
        => /\ resp.out.status = 200
           /\ resp.access.type = "access" /\ resp.access.sub = resp.input.token.sub
           /\ resp.refresh.type = "refresh" /\ resp.refresh.sub = resp.input.token.sub

RegVerifyOps == {"webauthn_verify_register", "verify_registration"}

\* The challenge of the response was drawn for registration by the user who
\* now presents it.
DrawnForCaller ==
    \E i \in issued : /\ i.challenge = resp.input.credential.challenge
                      /\ i.ceremony = "registration"
                      /\ i.user_id = resp.user.id

C16_OutageIsServerError ==
    ("store" \in DOMAIN resp.input /\ resp.input.store = "unavailable"
                                    /\ resp.input.reached)
        => resp.out.status >= 500

\* What verify_authentication answers a response now, from its two steps.
AnswerTo(credential) ==
    verify_authentication_result(by_credential_id(base64url_to_bytes(credential.id)),
                                 credential, now).out

\* C17: the rejection of a failed verification is generic.  Two responses
\* that both fail at the same operation get the same answer, whatever made
\* each of them fail.
C17_GenericRejection ==
    \A other \in AuthnCredentials :
        /\ (resp.op = "verify_authentication" /\ resp.out.status # 200
              /\ AnswerTo(other).status # 200)
              => resp.out = AnswerTo(other)
        /\ (resp.op = "webauthn_verify_authentication" /\ resp.out.status # 200
              /\ webauthn_verify_authentication_result(other, now).out.status # 200)
              => resp.out = webauthn_verify_authentication_result(other, now).out

C19_TokenRoundTrip ==
    (/\ resp.op = "verify_token"
     /\ resp.input.token \in tokens
     /\ resp.input.token.type = resp.input.token_type
     /\ resp.at <= resp.input.token.exp)
    => /\ resp.out.status = 200
       /\ resp.subject = resp.input.token.sub

\* C20: verify_token ends either with the subject or with a 401 rejection;
\* no other exception leaves it, whatever the subject of the token is.
C20_VerifierNeverRaises ==
    resp.op = "verify_token" =>
        \/ resp.out.status = 200 /\ resp.subject # NoSub
        \/ resp.out.status = 401 /\ resp.out.exc = "HTTPException"

\* C21: password round trip.  A password verifies against a hash made of
\* it and against no hash made of another password, and no two calls of
\* hash_password return the same string.
C21_PasswordRoundTrip ==
    /\ \A h \in hashed :
          (resp.op = "verify_password" /\ resp.input.hashed_password = h.hash)
             => (resp.out = Return(200, "true", "") <=> resp.input.plain_password = h.password)
    /\ \A h1, h2 \in hashed : h1 # h2 => h1.hash # h2.hash

\* C22: verify_password against a string that hash_password did not make
\* returns False; it does not raise.
C22_MalformedHashIsFalse ==
    (resp.op = "verify_password"
        /\ resp.input.hashed_password \notin {h.hash : h \in hashed})
    => resp.out = Return(200, "false", "")

\* C23: a refresh token is not used up. A refresh with the token R of the last
\* refresh, made before R expires, succeeds again with new tokens, and a token
\* operation leaves the stored users and authenticators as they were.
C23_RefreshTokenReusable ==
    [][(/\ resp.op \in {"refresh_token", "refresh_tokens"}
        /\ resp'.op \in {"refresh_token", "refresh_tokens"}
        /\ resp' # resp
        /\ resp'.input.token = resp.input.token
        /\ resp'.input.token \in tokens
        /\ resp'.input.token.type = "refresh"
        /\ resp'.at <= resp'.input.token.exp)
           => /\ resp'.out.status = 200
              /\ resp'.access.type = "access"
              /\ resp'.refresh.type = "refresh"
              /\ users' = users /\ authenticators' = authenticators]_vars


\* C24: generate_authentication_options for a user who owns authenticator
\* records returns options (whose allow_credentials are that user's credential
\* IDs), and the call without a user returns options with a challenge.
C24_OptionsReturned ==
    /\ (/\ resp.op = "generate_authentication_options"
        /\ \E a \in authenticators : a.user_id = resp.input.user.id)
           => resp.out = OK
    /\ resp.op = "webauthn_generate_authentication_options"
           => (resp.out = OK /\ resp.challenge # None)

\* An authenticator row as registration stores it (credential_id in bytes) whose
\* wire form is `wire`.
StoredFor(wire) ==
    {a \in authenticators : a.credential_id.form = "bytes" /\ bytes_to_base64url(a.credential_id) = wire}

\* C25: a credential ID stored at registration is the same bytes after it is
\* written in wire form and decoded, and an authentication response that
\* carries the wire form of a stored ID resolves to the row stored for it, in
\* the service's lookup and in the endpoint's.
C25_CredentialIdResolves ==
    /\ \A a \in authenticators :
          a.credential_id.form = "bytes"
             => base64url_to_bytes(bytes_to_base64url(a.credential_id)) = a.credential_id
    /\ \A r \in Reqs : \A a \in StoredFor(req[r].credential.id) :
          req[r].pc = "looked" => req[r].authenticator = a
    /\ (resp.op = "webauthn_verify_authentication"
           /\ StoredFor(resp.input.credential.id) # {})
          => resp.out.detail \notin {"'AsyncSession' object has no attribute 'query'",
                                     "400: Authenticator not found"}

\* The challenge the verify call that follows operation op expects.
ExpectedAfter(op) ==
    IF op = "webauthn_generate_register_options" THEN register_expected_challenge
    ELSE IF op = "webauthn_generate_authentication_options" THEN authenticate_expected_challenge
    ELSE self_current_challenge.value

\* C26: a generate-options call draws a challenge that no earlier call drew,
\* and keeps it: it is the challenge the verify call of that ceremony expects.
C26_FreshChallengeKept ==
    [][\A i \in issued' \ issued :
          /\ i.challenge \notin {j.challenge : j \in issued}
          /\ ExpectedAfter(resp'.op) = i.challenge]_vars

C28_RecordFrame ==
    [][/\ \A b \in authenticators' :
             (\A a \in authenticators : a.credential_id # b.credential_id)
                => (resp'.op \in RegVerifyOps /\ resp'.out.status = 200)
       /\ \A a \in authenticators : \E b \in authenticators' :
             /\ b.credential_id = a.credential_id
             /\ b.user_id = a.user_id
             /\ b.public_key = a.public_key
             /\ b # a => (resp'.op \in AuthVerifyOps /\ resp'.out.status = 200)]_vars

\* The owner of the stored passkey was updated, with a new e-mail address and
\* a new password, and the passkey is stored as before.
C28_Witness ==
    /\ resp.op = "update_user"
    /\ resp.out = OK
    /\ resp.input.email # NoEmail
    /\ resp.input.password # NoPassword
    /\ resp.user.email = resp.input.email
    /\ authenticators = {Authenticator(resp.user.id, CredBytes(1), 1, 1)}

\* Two finished requests that were under way at the same time and presented
\* the same challenge.
SameChallenge(r1, r2) ==
    /\ r1 # r2
    /\ req[r1].pc = "done" /\ req[r2].pc = "done"
    /\ req[r1].overlap /\ req[r2].overlap
    /\ req[r1].credential.challenge = req[r2].credential.challenge

ProtectedOps ==
    {"get_current_user", "webauthn_generate_register_options", "webauthn_verify_register"}

\* The token of the last request: its signature validates, it is not expired,
\* and its subject is the ID of a stored user.
Admissible ==
    /\ resp.input.token.sig = "ok"
    /\ resp.input.token.exp = NoExp \/ resp.at <= resp.input.token.exp
    /\ resp.input.token.sub # NoSub
    /\ \E u \in users : str(IntId(u.id)) = resp.input.token.sub

C31_EmailUnique ==
    /\ \A u1, u2 \in users : u1.email = u2.email => u1 = u2
    /\ (resp.op \in {"create_user", "update_user"}
           /\ "held" \in DOMAIN resp.input /\ resp.input.held)
          => resp.out = HTTPException(400, "Email already registered")

\* C32: the password set is the password login checks.  Registration with a
\* password for a free e-mail address creates the user; a login that follows a
\* registration or an update_user with password P for that user succeeds
\* exactly with P; a login for a user without a password hash never succeeds.
C32_PasswordSetIsChecked ==
    [][/\ (resp'.op = "register_user" /\ resp'.input.password # NoPassword
              /\ get_user_by_email(resp'.input.email) = NoUser)
             => (resp'.out = OK /\ \E u \in users' : u.email = resp'.input.email)
       /\ (resp.op \in {"register_user", "update_user"} /\ resp.out = OK
              /\ resp.input.password # NoPassword
              /\ resp'.op = "login" /\ resp'.input.email = resp.user.email)
             => (resp'.out.status = 200 <=> resp'.input.password = resp.input.password)
       /\ (resp'.op = "login" /\ resp' # resp
              /\ get_user_by_email(resp'.input.email).password_hash = NoHash)
             => resp'.out.status # 200]_vars

=============================================================================
